---- MODULE Spec2Model ----
(***************************************************************************)
(* Model of simulate_and_report.py: the monthly QQQ purchase simulation    *)
(* (simulate), its date selector (pick_trade_dates), the cost tables, the  *)
(* snapshot fallback rate and the data.csv output of build_report.         *)
(*                                                                         *)
(* Floats are modelled as exact rationals <<num, den>> (den > 0, lowest    *)
(* terms) plus the IEEE value NaN, written <<0, 0>>.  Arithmetic on NaN    *)
(* yields NaN and every ordered comparison with NaN is false, as in        *)
(* Python.  Dates are day numbers that keep the calendar order.            *)
(***************************************************************************)
EXTENDS Integers, Sequences, FiniteSets, TLC

(* ------------------------------ bounds --------------------------------- *)
\* largest number of rows in a downloaded QQQ frame drawn from Calendar
MaxPriceObs == 3
\* largest number of rows in a downloaded TWD=X frame
MaxRateObs == 2

(* --------------------------- float arithmetic -------------------------- *)
\* The primitives are functions of their argument tuple, so that an argument
\* is evaluated once however often the body uses it.
NaN == <<0, 0>>

Floats == Int \X Int

Abs(n) == IF n < 0 THEN -n ELSE n

GCDFn[p \in Nat \X Nat] == IF p[2] = 0 THEN p[1] ELSE GCDFn[<<p[2], p[1] % p[2]>>]
GCD(a, b) == GCDFn[<<a, b>>]

\* n/d in lowest terms, d > 0
RatFn[p \in Int \X Nat] == <<p[1] \div GCD(Abs(p[1]), p[2]), p[2] \div GCD(Abs(p[1]), p[2])>>
Rat(n, d) == RatFn[<<n, d>>]

IsNaN(x) == x[2] = 0

FAddFn[p \in Floats \X Floats] ==
    LET x == p[1]
        y == p[2]
        g == GCD(x[2], y[2])
    IN IF IsNaN(x) \/ IsNaN(y) THEN NaN
       ELSE Rat(x[1] * (y[2] \div g) + y[1] * (x[2] \div g), (x[2] \div g) * y[2])
FAdd(x, y) == FAddFn[<<x, y>>]

FNeg(x) == IF IsNaN(x) THEN NaN ELSE <<-x[1], x[2]>>

FSub(x, y) == FAdd(x, FNeg(y))

FMulFn[p \in Floats \X Floats] ==
    LET x == p[1]
        y == p[2]
        g1 == GCD(Abs(x[1]), y[2])
        g2 == GCD(Abs(y[1]), x[2])
    IN IF IsNaN(x) \/ IsNaN(y) THEN NaN
       ELSE Rat((x[1] \div g1) * (y[1] \div g2), (x[2] \div g2) * (y[2] \div g1))
FMul(x, y) == FMulFn[<<x, y>>]

\* the divisors of the program are never zero: rate is NaN or >= 1 after the
\* sanity check, and closing prices are positive
FDivFn[p \in Floats \X Floats] ==
    LET x == p[1]
        y == p[2]
    IN IF IsNaN(x) \/ IsNaN(y) THEN NaN
       ELSE IF y[1] < 0 THEN FMul(x, <<-y[2], -y[1]>>)
       ELSE FMul(x, <<y[2], y[1]>>)
FDiv(x, y) == FDivFn[<<x, y>>]

\* x < y on floats: false as soon as one side is NaN
FLt(x, y) == ~IsNaN(x) /\ ~IsNaN(y) /\ FSub(x, y)[1] < 0

FGe(x, y) == ~IsNaN(x) /\ ~IsNaN(y) /\ FSub(x, y)[1] >= 0

\* Python's max(a, b): b only when b > a, so max(nan, 0.0) is nan
PyMaxFn[p \in Floats \X Floats] == IF FLt(p[1], p[2]) THEN p[2] ELSE p[1]
PyMax(a, b) == PyMaxFn[<<a, b>>]

Zero == Rat(0, 1)
One == Rat(1, 1)

\* f"{x:.4f}": the number of ten-thousandths, ties to even
Fmt4(x) ==
    LET n == x[1] * 10000
        q == n \div x[2]
        r == n % x[2]
    IN IF 2 * r > x[2] THEN q + 1
       ELSE IF 2 * r = x[2] THEN q + (q % 2)
       ELSE q

(* -------------------------------- dates -------------------------------- *)
MkDate(y, m, d) == (y * 12 + (m - 1)) * 31 + (d - 1)
Year(x) == x \div 372
Month(x) == ((x \div 31) % 12) + 1

SetMax(S) == CHOOSE x \in S : \A y \in S : y <= x
SetMin(S) == CHOOSE x \in S : \A y \in S : x <= y

\* the dates of an index in calendar order
SortedSeq(S) == [i \in 1..Cardinality(S) |-> CHOOSE x \in S : Cardinality({y \in S : y < x}) = i - 1]

\* trading dates on which the feeds may carry a row
Calendar == {MkDate(2026, 1, 2), MkDate(2026, 1, 5), MkDate(2026, 2, 2), MkDate(2027, 1, 4)}

\* the 20 trading dates of March 2026
FullMonth == {MkDate(2026, 3, d) : d \in {2, 3, 4, 5, 6, 9, 10, 11, 12, 13,
                                           16, 17, 18, 19, 20, 23, 24, 25, 26, 27}}

\* (start, end) pairs handed to simulate
Ranges == {<<MkDate(2026, 1, 1), MkDate(2027, 12, 31)>>,
           <<MkDate(2026, 1, 3), MkDate(2026, 3, 19)>>}

(* ------------------------------ constants ------------------------------ *)
MONTHLY_TWD == Rat(10000, 1)
FX_FALLBACK_TWD_PER_USD == Rat(32, 1)

\* (trade_mode, COMMISSION_MODE, FX_SPREAD_MODE) settings of a run: the
\* recognized values and unrecognized ones ("weekly", "vip", "wire")
Configs == {<<"month_start", "etf_normal", "digital">>,
            <<"month_end", "etf_normal", "digital">>,
            <<"month_start", "dca", "spot">>,
            <<"month_end", "dca", "spot">>,
            <<"weekly", "etf_normal", "digital">>,
            <<"month_start", "vip", "digital">>,
            <<"month_end", "etf_normal", "wire">>,
            <<"weekly", "vip", "wire">>}
Contributions == {MONTHLY_TWD, Rat(50, 1)}

\* closing price quoted by the provider on a date
PriceAt(d) == IF d \in {MkDate(2026, 1, 5), MkDate(2027, 1, 4)} THEN Rat(500, 1) ELSE Rat(400, 1)

\* TWD=X closes the provider may return: an inverted quote and a plausible one
RateValues == {Rat(3, 100), Rat(30, 1)}

\* contents of actual_snapshot.json
Snapshots ==
    {[kind |-> "absent", fx |-> NaN],
     [kind |-> "invalid_json", fx |-> NaN],
     [kind |-> "no_field", fx |-> NaN],
     [kind |-> "number", fx |-> Rat(1, 1)],
     [kind |-> "number", fx |-> Rat(31, 1)]}

\* a Series: a function from its index (a set of dates, kept in calendar
\* order by the provider) to floats
EmptySeries == [d \in {} |-> NaN]

SmallSets(S, n) == {T \in SUBSET S : Cardinality(T) <= n}

\* frames safe_download("QQQ") may return, as their Close column
PriceFrames ==
    UNION {[T -> {"nan", "ok"}] : T \in SmallSets(Calendar, MaxPriceObs)}
    \cup {[d \in FullMonth |-> "ok"]}

PriceClose(frame) == [d \in DOMAIN frame |-> IF frame[d] = "ok" THEN PriceAt(d) ELSE NaN]

\* frames safe_download("TWD=X") may return
RateFrames ==
    {[hasClose |-> TRUE, close |-> f] :
        f \in UNION {[T -> RateValues \cup {NaN}] : T \in SmallSets(Calendar, MaxRateObs)}}
    \cup {[hasClose |-> FALSE, close |-> [d \in {MkDate(2026, 1, 2)} |-> Rat(30, 1)]]}

(* --------------------------- pure functions ---------------------------- *)
\* dropna that forgets to drop: the NaN rows stay
dropna_keep(series) == series

\* Series.dropna(): the rows whose value is not NaN
dropna(series) == [d \in {e \in DOMAIN series : ~IsNaN(series[e])} |-> series[d]]

\* Series.reindex(index): the values at the new index, NaN where absent
reindex(series, index) == [d \in index |-> IF d \in DOMAIN series THEN series[d] ELSE NaN]

\* Series.ffill(): each NaN takes the last non-NaN value before it in the index
ffill(series) ==
    [d \in DOMAIN series |->
        LET prev == {e \in DOMAIN series : e <= d /\ ~IsNaN(series[e])}
        IN IF prev = {} THEN NaN ELSE series[SetMax(prev)]]

\* the rows of seq at the positions P, in their order
KeepPositions(seq, P) == [k \in 1..Cardinality(P) |-> seq[SortedSeq(P)[k]]]

\* df.groupby(["y", "m"]).head(1).index: first row of each (year, month)
GroupHeadFn[dates \in Seq(Int)] ==
    KeepPositions(dates, {i \in 1..Len(dates) : \A j \in 1..(i - 1) :
        <<Year(dates[j]), Month(dates[j])>> # <<Year(dates[i]), Month(dates[i])>>})
GroupHead(dates) == GroupHeadFn[dates]

\* tail(1) taken on the ungrouped frame's rows: every date is kept
GroupTail_all(dates) == dates

\* df.groupby(["y", "m"]).tail(1).index: last row of each (year, month)
GroupTailFn[dates \in Seq(Int)] ==
    KeepPositions(dates, {i \in 1..Len(dates) : \A j \in (i + 1)..Len(dates) :
        <<Year(dates[j]), Month(dates[j])>> # <<Year(dates[i]), Month(dates[i])>>})
GroupTail(dates) == GroupTailFn[dates]

\* the two cadences exchanged
pick_trade_dates_swapped(price_index, start_dt, end_dt, mode) ==
    LET InRange(d) == d >= start_dt /\ d <= end_dt
        dates == SelectSeq(price_index, InRange)
    IN IF mode = "month_start" THEN [raised |-> FALSE, index |-> GroupTail(dates)]
       ELSE IF mode = "month_end" THEN [raised |-> FALSE, index |-> GroupHead(dates)]
       ELSE [raised |-> TRUE, index |-> << >>]

pick_trade_dates(price_index, start_dt, end_dt, mode) ==
    LET InRange(d) == d >= start_dt /\ d <= end_dt
        dates == SelectSeq(price_index, InRange)
    IN IF mode = "month_start" THEN [raised |-> FALSE, index |-> GroupHead(dates)]
       ELSE IF mode = "month_end" THEN [raised |-> FALSE, index |-> GroupTail(dates)]
       ELSE [raised |-> TRUE, index |-> << >>]

cathay_commission_usd(mode) ==
    IF mode = "etf_normal" THEN [raised |-> FALSE, value |-> Rat(3, 1)]
    ELSE IF mode = "dca" THEN [raised |-> FALSE, value |-> Rat(1, 10)]
    ELSE [raised |-> TRUE, value |-> NaN]

cathay_fx_oneway_spread(mode) ==
    IF mode = "digital" THEN [raised |-> FALSE, value |-> Rat(10, 10000)]
    ELSE IF mode = "spot" THEN [raised |-> FALSE, value |-> Rat(19, 10000)]
    ELSE [raised |-> TRUE, value |-> NaN]

\* the snapshot override ignored
read_fx_fallback_from_snapshot_default(snap, default_fx) == default_fx

read_fx_fallback_from_snapshot(snap, default_fx) ==
    IF snap.kind = "absent" THEN default_fx
    ELSE IF snap.kind # "number" THEN default_fx
    ELSE IF FLt(One, snap.fx) THEN snap.fx ELSE default_fx

\* the fixed column list of the result table
cols == <<"date", "fx_twd_per_usd_mid", "qqq_price_usd", "twd_contribution",
          "fx_oneway_spread", "commission_usd", "usd_after_fx_and_fee",
          "shares_bought", "total_shares", "portfolio_value_twd">>

\* pd.DataFrame(columns=cols)
EmptyFrame == [columns |-> cols, rows |-> << >>]

\* pd.DataFrame(): no columns, no rows
BareFrame == [columns |-> << >>, rows |-> << >>]

\* pd.DataFrame(rows): the columns are the keys of the row dicts
RowKeys(r) == SelectSeq(cols, LAMBDA c : c \in DOMAIN r)
DataFrame(rs) == IF rs = << >> THEN BareFrame ELSE [columns |-> RowKeys(rs[1]), rows |-> rs]

\* the warnings simulate appends
WarnNoPrice == [msg |-> "qqq_not_downloaded", value |-> 0]
WarnNoClose == [msg |-> "qqq_close_empty", value |-> 0]
WarnFallback(fallback) == [msg |-> "fx_fallback_used", value |-> Fmt4(fallback)]
WarnNoDates == [msg |-> "no_trade_dates", value |-> 0]
WarnAbnormal == [msg |-> "fx_abnormal", value |-> 0]

\* sanity check against 0 instead of 1
RateAbnormal_neg(rate) == FLt(rate, Zero)

\* the test of the per-period sanity check
RateAbnormal(rate) == FLt(rate, One)

\* one pass of the purchase loop body after the rate is settled: the row dict
PeriodRow(d, rate, price, monthly, spread, fee, shares_before) ==
    LET usd_gross == FDiv(monthly, rate)
        usd_net_fx == FMul(usd_gross, FSub(One, spread))
        usd_after_fee == PyMax(FSub(usd_net_fx, fee), Zero)
        shares == FDiv(usd_after_fee, price)
        total == FAdd(shares_before, shares)
        port_usd == FMul(total, price)
        port_twd == FMul(port_usd, rate)
    IN [date |-> d,
        fx_twd_per_usd_mid |-> rate,
        qqq_price_usd |-> price,
        twd_contribution |-> monthly,
        fx_oneway_spread |-> spread,
        commission_usd |-> fee,
        usd_after_fx_and_fee |-> usd_after_fee,
        shares_bought |-> shares,
        total_shares |-> total,
        portfolio_value_twd |-> port_twd]

(* ------------------------------- state --------------------------------- *)
VARIABLES
    start, end, monthly_twd, trade_mode,   \* arguments of simulate
    COMMISSION_MODE, FX_SPREAD_MODE,       \* module settings read by simulate
    snapshot,                              \* actual_snapshot.json
    pc,                                    \* phase of the run
    trace,                                 \* phases entered so far, in order
    fetched,                               \* tickers handed to safe_download so far
    qqq_price, fx_mid, fx_rate,            \* locals of simulate (Series)
    trade_dates, commission, fx_spread,    \* locals of simulate
    total_shares, rows, warn,              \* locals of simulate
    df,                                    \* the table simulate returned
    csv                                    \* the table written to docs/data.csv

vars == <<start, end, monthly_twd, trade_mode, COMMISSION_MODE, FX_SPREAD_MODE,
          snapshot, pc, trace, fetched, qqq_price, fx_mid, fx_rate, trade_dates,
          commission, fx_spread, total_shares, rows, warn, df, csv>>

inputs == <<start, end, monthly_twd, trade_mode, COMMISSION_MODE, FX_SPREAD_MODE, snapshot>>

\* nothing written yet to docs/data.csv
NoFile == [columns |-> <<"(not written)">>, rows |-> << >>]

Init ==
    /\ \E r \in Ranges : start = r[1] /\ end = r[2]
    /\ monthly_twd \in Contributions
    /\ \E c \in Configs : trade_mode = c[1] /\ COMMISSION_MODE = c[2] /\ FX_SPREAD_MODE = c[3]
    /\ snapshot \in Snapshots
    /\ pc = "NotStarted"
    /\ trace = <<<<"NotStarted", 0>>>>
    /\ fetched = {}
    /\ qqq_price = EmptySeries
    /\ fx_mid = EmptySeries
    /\ fx_rate = EmptySeries
    /\ trade_dates = << >>
    /\ commission = NaN
    /\ fx_spread = NaN
    /\ total_shares = Zero
    /\ rows = << >>
    /\ warn = << >>
    /\ df = BareFrame
    /\ csv = NoFile

Enter(phase, k) == /\ pc' = phase
                   /\ trace' = Append(trace, <<phase, k>>)

\* lines 107-129: download QQQ, return early when the frame or its Close is empty
CheckPrice(frame) ==
    /\ pc = "NotStarted"
    /\ fetched' = fetched \cup {"QQQ"}
    /\ IF DOMAIN frame = {}
       THEN /\ warn' = Append(warn, WarnNoPrice)
            /\ df' = EmptyFrame
            /\ qqq_price' = qqq_price
            /\ Enter("Done", 0)
       ELSE IF DOMAIN dropna(PriceClose(frame)) = {}
       THEN /\ warn' = Append(warn, WarnNoClose)
            /\ df' = EmptyFrame
            /\ qqq_price' = dropna(PriceClose(frame))
            /\ Enter("Done", 0)
       ELSE /\ qqq_price' = dropna(PriceClose(frame))
            /\ Enter("PriceChecked", 0)
            /\ UNCHANGED <<warn, df>>
    /\ UNCHANGED <<inputs, fx_mid, fx_rate, trade_dates, commission, fx_spread,
                   total_shares, rows, csv>>

\* lines 131-147: download TWD=X and align it to the QQQ trading dates
AlignRate(fx) ==
    /\ pc = "PriceChecked"
    /\ fetched' = fetched \cup {"TWD=X"}
    /\ LET mid == IF DOMAIN fx.close # {} /\ fx.hasClose THEN dropna(fx.close) ELSE EmptySeries
       IN /\ fx_mid' = mid
          /\ IF DOMAIN mid # {}
             THEN /\ fx_rate' = ffill(reindex(mid, DOMAIN qqq_price))
                  /\ warn' = warn
             ELSE LET fallback == read_fx_fallback_from_snapshot(snapshot, FX_FALLBACK_TWD_PER_USD)
                  IN /\ fx_rate' = [d \in DOMAIN qqq_price |-> fallback]
                     /\ warn' = Append(warn, WarnFallback(fallback))
    /\ Enter("RateAligned", 0)
    /\ UNCHANGED <<inputs, qqq_price, trade_dates, commission, fx_spread,
                   total_shares, rows, df, csv>>

\* lines 149-163: pick the purchase dates, then look the costs up
SelectDates ==
    /\ pc = "RateAligned"
    /\ \E picked \in {pick_trade_dates(SortedSeq(DOMAIN qqq_price), start, end, trade_mode)},
          fee \in {cathay_commission_usd(COMMISSION_MODE)},
          spread \in {cathay_fx_oneway_spread(FX_SPREAD_MODE)} :
          IF picked.raised
          THEN /\ Enter("Raised", 0)
               /\ UNCHANGED <<trade_dates, warn, df, commission, fx_spread>>
          ELSE IF Len(picked.index) = 0
          THEN /\ trade_dates' = picked.index
               /\ warn' = Append(warn, WarnNoDates)
               /\ df' = EmptyFrame
               /\ Enter("Done", 0)
               /\ UNCHANGED <<commission, fx_spread>>
          ELSE IF fee.raised
          THEN /\ trade_dates' = picked.index
               /\ Enter("Raised", 0)
               /\ UNCHANGED <<warn, df, commission, fx_spread>>
          ELSE IF spread.raised
          THEN /\ trade_dates' = picked.index
               /\ commission' = fee.value
               /\ Enter("Raised", 0)
               /\ UNCHANGED <<warn, df, fx_spread>>
          ELSE /\ trade_dates' = picked.index
               /\ commission' = fee.value
               /\ fx_spread' = spread.value
               /\ Enter("DatesSelected", 0)
               /\ UNCHANGED <<warn, df>>
    /\ total_shares' = Zero
    /\ rows' = << >>
    /\ UNCHANGED <<inputs, fetched, qqq_price, fx_mid, fx_rate, csv>>

\* lines 165-199: one pass of the loop over trade_dates
Accumulate ==
    /\ pc \in {"DatesSelected", "Accumulating"}
    /\ Len(rows) < Len(trade_dates)
    /\ LET d == trade_dates[Len(rows) + 1]
           read == fx_rate[d]
           price == qqq_price[d]
           rate == IF RateAbnormal(read)
                   THEN read_fx_fallback_from_snapshot(snapshot, FX_FALLBACK_TWD_PER_USD)
                   ELSE read
       IN \E row \in {PeriodRow(d, rate, price, monthly_twd, fx_spread, commission, total_shares)} :
             /\ warn' = IF RateAbnormal(read) THEN Append(warn, WarnAbnormal) ELSE warn
             /\ total_shares' = row.total_shares
             /\ rows' = Append(rows, row)
    /\ Enter("Accumulating", Len(rows) + 1)
    /\ UNCHANGED <<inputs, fetched, qqq_price, fx_mid, fx_rate, trade_dates,
                   commission, fx_spread, df, csv>>

\* lines 201-202: the loop is over, build the table and return
Return ==
    /\ pc = "Accumulating"
    /\ Len(rows) = Len(trade_dates)
    /\ df' = DataFrame(rows)
    /\ Enter("Done", 0)
    /\ UNCHANGED <<inputs, fetched, qqq_price, fx_mid, fx_rate, trade_dates,
                   commission, fx_spread, total_shares, rows, warn, csv>>

\* lines 468-472 of build_report: write docs/data.csv
build_report ==
    /\ pc = "Done"
    /\ csv' = IF df.rows # << >> THEN df ELSE BareFrame
    /\ Enter("Reported", 0)
    /\ UNCHANGED <<inputs, fetched, qqq_price, fx_mid, fx_rate, trade_dates,
                   commission, fx_spread, total_shares, rows, warn, df>>

Next ==
    \/ \E frame \in PriceFrames : CheckPrice(frame)
    \/ \E fx \in RateFrames : AlignRate(fx)
    \/ SelectDates
    \/ Accumulate
    \/ Return
    \/ build_report

Spec == Init /\ [][Next]_vars

\* a run is one sequential call: every enabled step is eventually taken
FairSpec == Spec /\ WF_vars(Next)

TypeOK == pc \in {"NotStarted", "PriceChecked", "RateAligned", "DatesSelected",
                  "Accumulating", "Done", "Raised", "Reported"}

(* ------------------------- shared vocabulary --------------------------- *)
ValidConfig ==
    /\ trade_mode \in {"month_start", "month_end"}
    /\ COMMISSION_MODE \in {"etf_normal", "dca"}
    /\ FX_SPREAD_MODE \in {"digital", "spot"}

Returned == pc \in {"Done", "Reported"}

\* the price feed was read and holds no usable close
PriceMissing == "QQQ" \in fetched /\ \A d \in DOMAIN qqq_price : IsNaN(qqq_price[d])

\* the rate feed was read and holds no observation
RateMissing == "TWD=X" \in fetched /\ DOMAIN fx_mid = {}

\* price dates inside [start, end]
InRange == {d \in DOMAIN qqq_price : start <= d /\ d <= end}

SameMonth(d, e) == Year(d) = Year(e) /\ Month(d) = Month(e)

\* the fallback rate as the documentation describes it
ExpectedFallback ==
    IF snapshot.kind = "number" /\ snapshot.fx[1] > snapshot.fx[2]
    THEN snapshot.fx ELSE Rat(32, 1)

\* the phases of simulate, without the report step that follows it
SimTrace == IF pc = "Reported" THEN SubSeq(trace, 1, Len(trace) - 1) ELSE trace

IsPrefix(s, t) == Len(s) <= Len(t) /\ SubSeq(t, 1, Len(s)) = s

FullPath(n) ==
    <<<<"NotStarted", 0>>, <<"PriceChecked", 0>>, <<"RateAligned", 0>>, <<"DatesSelected", 0>>>>
    \o [k \in 1..n |-> <<"Accumulating", k>>]
    \o <<<<"Done", 0>>>>

PricePath == <<<<"NotStarted", 0>>, <<"Done", 0>>>>

NoDatesPath == <<<<"NotStarted", 0>>, <<"PriceChecked", 0>>, <<"RateAligned", 0>>, <<"Done", 0>>>>

\* number of calendar months with a price date inside the range
MonthsInRange == Cardinality({<<Year(d), Month(d)>> : d \in InRange})

(* -------------------------------- C1 ----------------------------------- *)
\* C1: with an unrecognized commission tier, spread tier or cadence, the
\* error is raised before any data is touched: no series is fetched, no
\* warning is appended and no ledger is returned in a run with such an option.
C1_ErrorBeforeData ==
    ~ValidConfig => fetched = {} /\ warn = << >> /\ ~Returned

(* -------------------------------- C2 ----------------------------------- *)
\* C2: when the price series is empty or has no usable close, simulate
\* returns the empty ledger with the full column set and exactly one warning,
\* raises nothing and does no further processing (no rate fetch or
\* alignment, no fallback warning, no date selection).
C2_MissingPrice ==
    PriceMissing =>
        /\ Returned
        /\ SimTrace = PricePath
        /\ df = EmptyFrame
        /\ Len(warn) = 1
        /\ warn[1] \in {WarnNoPrice, WarnNoClose}
        /\ "TWD=X" \notin fetched
        /\ fx_rate = EmptySeries
        /\ trade_dates = << >>

C2_Witness ==
    /\ pc = "Done"
    /\ PriceMissing
    /\ warn = <<WarnNoClose>>
    /\ df.rows = << >>

(* -------------------------------- C3 ----------------------------------- *)
\* the path a run with a valid configuration follows when only a missing
\* price feed and an empty date selection end it early
ExpectedPath ==
    IF PriceMissing THEN PricePath
    ELSE IF InRange = {} THEN NoDatesPath
    ELSE FullPath(MonthsInRange)

PhaseOrder ==
    /\ IsPrefix(SimTrace, ExpectedPath)
    /\ Returned => SimTrace = ExpectedPath
    /\ Returned /\ (PriceMissing \/ InRange = {}) => df.rows = << >>
    /\ Returned /\ ~PriceMissing /\ InRange # {} => Len(df.rows) = MonthsInRange

\* C3 (as amended): a run with a valid configuration moves through
\* NotStarted, PriceChecked, RateAligned, DatesSelected, Accumulating(1..N),
\* Done in that order and always reaches Done; a missing price feed and an
\* empty date selection go straight to Done with an empty ledger; a missing
\* rate feed does not end the run, which goes on with the fallback rate.
C3_Phases ==
    /\ [](ValidConfig => PhaseOrder)
    /\ (ValidConfig /\ pc = "NotStarted") ~> (pc = "Done")

C3_Witness ==
    /\ ValidConfig
    /\ pc = "Done"
    /\ RateMissing
    /\ Len(df.rows) >= 2
    /\ trace = FullPath(Len(trade_dates))

\* C3 (as stated): any availability failure, a missing rate feed included,
\* goes straight to Done with an empty ledger and skips the later phases.
C3_Original ==
    ValidConfig /\ Returned /\ (PriceMissing \/ RateMissing \/ InRange = {}) =>
        /\ df.rows = << >>
        /\ \A i \in 1..Len(trace) : trace[i][1] \notin {"DatesSelected", "Accumulating"}

(* -------------------------------- C4 ----------------------------------- *)
\* C4: when the rate series has no observation and the price series has a
\* trading date in [start, end], simulate returns exactly one warning, which
\* names the fallback value, and every row of the ledger carries the fallback
\* rate (the accepted snapshot override, else the hard-coded default).
C4_RateFallback ==
    pc = "Done" /\ RateMissing /\ InRange # {} =>
        /\ Len(warn) = 1
        /\ warn[1].msg = "fx_fallback_used"
        /\ warn[1].value = ExpectedFallback[1] * 10000
        /\ Len(df.rows) >= 1
        /\ \A i \in 1..Len(df.rows) : df.rows[i].fx_twd_per_usd_mid = ExpectedFallback

C4_Witness ==
    /\ pc = "Done"
    /\ RateMissing
    /\ snapshot.kind = "number"
    /\ snapshot.fx = Rat(31, 1)
    /\ Len(df.rows) = 3
    /\ warn = <<[msg |-> "fx_fallback_used", value |-> 310000]>>

(* -------------------------------- C5 ----------------------------------- *)
AbnormalRows == {i \in 1..Len(rows) : FLt(fx_rate[rows[i].date], One)}

AbnormalWarnings == {j \in 1..Len(warn) : warn[j] = WarnAbnormal}

\* C5: a purchase date whose aligned rate is below 1.0 does not abort the
\* run; its row uses the fallback rate, for the conversion and for the
\* portfolio value, and one warning is appended for it; a date whose rate is
\* at least 1.0 keeps its own rate and adds no warning, so there are as many
\* implausible-rate warnings as purchase dates with a rate below 1.0.
C5_ImplausibleRate ==
    /\ rows # << >> => pc # "Raised"
    /\ \A i \in 1..Len(rows) :
          LET r == rows[i]
              aligned == fx_rate[r.date]
          IN /\ FLt(aligned, One) =>
                  /\ r.fx_twd_per_usd_mid = ExpectedFallback
                  /\ r.usd_after_fx_and_fee =
                        PyMax(FSub(FMul(FDiv(r.twd_contribution, ExpectedFallback),
                                        FSub(One, r.fx_oneway_spread)),
                                   r.commission_usd), Zero)
                  /\ r.portfolio_value_twd =
                        FMul(FMul(r.total_shares, r.qqq_price_usd), ExpectedFallback)
             /\ FGe(aligned, One) => r.fx_twd_per_usd_mid = aligned
    /\ Cardinality(AbnormalWarnings) = Cardinality(AbnormalRows)

C5_Witness ==
    /\ pc = "Done"
    /\ Len(rows) = 2
    /\ fx_rate[rows[1].date] = Rat(3, 100)
    /\ fx_rate[rows[2].date] = Rat(30, 1)
    /\ rows[1].fx_twd_per_usd_mid = Rat(32, 1)
    /\ rows[2].fx_twd_per_usd_mid = Rat(30, 1)
    /\ warn = <<WarnAbnormal>>

(* -------------------------------- C6 ----------------------------------- *)
\* C6: for non-empty price and rate series, total_shares is non-decreasing
\* along the ledger: it starts from 0, each row's total is the previous total
\* plus the row's shares_bought, and shares_bought is never negative.
C6_SharesMonotone ==
    DOMAIN qqq_price # {} /\ DOMAIN fx_mid # {} =>
        \A i \in 1..Len(rows) :
            LET before == IF i = 1 THEN Zero ELSE rows[i - 1].total_shares
            IN /\ FGe(rows[i].shares_bought, Zero)
               /\ FGe(rows[i].total_shares, before)
               /\ ~IsNaN(rows[i].total_shares)
               /\ rows[i].total_shares = FAdd(before, rows[i].shares_bought)

(* -------------------------------- C7 ----------------------------------- *)
\* the larger of two numbers
NumMax(a, b) == IF FGe(a, b) THEN a ELSE b

\* C7: in every row, with rate the rate the row used, net_after_fee is
\* max((contribution / rate) * (1 - spread) - commission, 0), a number that
\* is never negative, shares_bought is net_after_fee / price and the
\* portfolio value is total_shares * price * rate; contribution 10000,
\* commission 3, spread 0.001, rate 32 and price 400 give 309.1875 after fees
\* and 0.77296875 shares.
C7_Economics ==
    \A i \in 1..Len(rows) :
        LET r == rows[i]
            rate == r.fx_twd_per_usd_mid
            net == FSub(FMul(FDiv(r.twd_contribution, rate), FSub(One, r.fx_oneway_spread)),
                        r.commission_usd)
        IN /\ FGe(r.usd_after_fx_and_fee, Zero)
           /\ r.usd_after_fx_and_fee = NumMax(net, Zero)
           /\ r.shares_bought = FDiv(r.usd_after_fx_and_fee, r.qqq_price_usd)
           /\ r.portfolio_value_twd = FMul(FMul(r.total_shares, r.qqq_price_usd), rate)
           /\ (r.twd_contribution = Rat(10000, 1) /\ r.commission_usd = Rat(3, 1)
                 /\ r.fx_oneway_spread = Rat(1, 1000) /\ rate = Rat(32, 1)
                 /\ r.qqq_price_usd = Rat(400, 1)
               => /\ r.usd_after_fx_and_fee = Rat(3091875, 10000)
                  /\ r.shares_bought = Rat(77296875, 100000000))

(* -------------------------------- C8 ----------------------------------- *)
\* pick_trade_dates has returned a date list
SelectionRan ==
    /\ trade_mode \in {"month_start", "month_end"}
    /\ Len(trace) >= 4
    /\ trace[3][1] = "RateAligned"

\* the date of its month that the cadence buys on
Representative(d) ==
    \A e \in InRange : SameMonth(d, e) =>
        IF trade_mode = "month_start" THEN d <= e ELSE e <= d

\* C8: the selected dates are exactly one date per (year, month) that has an
\* available date in [start, end], the first of the month under month_start
\* and the last under month_end, in chronological order, all available and in
\* range, and none (without an error) when no available date is in range; of
\* the 20 trading dates of one month, month_start picks exactly the first and
\* month_end exactly the last.
C8_DateSelector ==
    SelectionRan =>
        /\ {trade_dates[i] : i \in 1..Len(trade_dates)} = {d \in InRange : Representative(d)}
        /\ \A i \in 1..(Len(trade_dates) - 1) : trade_dates[i] < trade_dates[i + 1]
        /\ Len(trade_dates) = MonthsInRange
        /\ InRange = {} => trade_dates = << >> /\ pc # "Raised"
        /\ DOMAIN qqq_price = FullMonth /\ InRange = FullMonth =>
              trade_dates = IF trade_mode = "month_start"
                            THEN <<MkDate(2026, 3, 2)>> ELSE <<MkDate(2026, 3, 27)>>

C8_Witness ==
    /\ SelectionRan
    /\ trade_mode = "month_end"
    /\ DOMAIN qqq_price = FullMonth
    /\ InRange = FullMonth
    /\ trade_dates = <<MkDate(2026, 3, 27)>>

(* -------------------------------- C9 ----------------------------------- *)
\* C9: the ledger always carries the ten fixed columns, also with zero rows:
\* the table simulate returns on every path, and the table build_report
\* writes to data.csv.
C9_FixedColumns ==
    /\ Returned => df.columns = cols
    /\ pc = "Reported" => csv.columns = cols

(* -------------------------------- C10 ---------------------------------- *)
\* the most recent rate observation on or before a date, when there is one
Observed(d) == {e \in DOMAIN fx_mid : e <= d}

\* C10: when the rate series has an observation, every row uses a defined
\* rate of at least 1.0, the latest observation on or before its date or the
\* fallback, also on dates before the first observation; no row has an
\* undefined rate, shares_bought, total_shares or portfolio value.
C10_DefinedRate ==
    DOMAIN fx_mid # {} =>
        \A i \in 1..Len(rows) :
            LET r == rows[i]
            IN /\ FGe(r.fx_twd_per_usd_mid, One)
               /\ \/ r.fx_twd_per_usd_mid = ExpectedFallback
                  \/ /\ Observed(r.date) # {}
                     /\ r.fx_twd_per_usd_mid = fx_mid[SetMax(Observed(r.date))]
               /\ ~IsNaN(r.shares_bought)
               /\ ~IsNaN(r.total_shares)
               /\ ~IsNaN(r.portfolio_value_twd)

====
